---- MODULE Spec2Model ----
\* Model of the host prober of sniv2.py: the /scan handler (scan_specific_host),
\* the file-upload handler (handle_document), the /generate handler
\* (handle_generate_command), the membership gate in front of them
\* (is_member_of_channels, send_force_join_message), the retry policy
\* (check_host_with_retry), the single probe (check_host) and the DNS
\* pre-check (resolve_dns).
\*
\* Strings are sequences of one-character strings, so that str.strip,
\* str.replace and str.split are computed character by character.
EXTENDS Integers, Sequences, FiniteSets, TLC

\* ------------------------------------------------------------------ bounds
\* Number of tokens a raw /scan argument is built from.
MaxTokens == 3
\* Number of lines of an uploaded file.
MaxLines == 2

\* ------------------------------------------------------- program constants
\* check_host_with_retry(host, port, retries=2)
Retries == 2
\* the two ports the handlers probe
Port443 == 443
Port80 == 80

\* Latencies (ms) a successful probe may measure.
Latencies == {50, 120}

\* ------------------------------------------------------------------ strings
SchemeHttp == <<"h", "t", "t", "p", ":", "/", "/">>
SchemeHttps == <<"h", "t", "t", "p", "s", ":", "/", "/">>
Whitespace == {" "}

\* Pieces raw inputs are built from.
Tokens == {SchemeHttp, SchemeHttps, <<"/">>, <<"a">>, <<"B">>, <<".">>}

RECURSIVE Concats(_)
Concats(n) ==
    IF n = 0 THEN {<<>>}
    ELSE Concats(n - 1) \cup {s \o t : s \in Concats(n - 1), t \in Tokens}

\* context.args[0]: a non-empty, whitespace-free word of the command line.
RawArgs == Concats(MaxTokens) \ {<<>>}

\* Lines of an uploaded file (without the line terminator): a blank line, a
\* host, a host with a leading blank, a URL with a path, a bare scheme, and a
\* name with an empty label.
FileLines ==
    { <<>>,
      <<"a">>,
      <<" ", "a">>,
      SchemeHttps \o <<"B", "/", "a">>,
      SchemeHttp,
      <<"a", ".", ".", "B">> }

RECURSIVE SeqsUpTo(_, _)
SeqsUpTo(S, n) ==
    IF n = 0 THEN {<<>>}
    ELSE SeqsUpTo(S, n - 1) \cup {Append(q, x) : q \in SeqsUpTo(S, n - 1), x \in S}

StartsWith(s, p) == Len(s) >= Len(p) /\ SubSeq(s, 1, Len(p)) = p

\* str.strip(): drops leading and trailing whitespace.
RECURSIVE LStrip(_)
LStrip(s) ==
    IF s # <<>> /\ Head(s) \in Whitespace THEN LStrip(Tail(s)) ELSE s

RECURSIVE RStrip(_)
RStrip(s) ==
    IF s # <<>> /\ s[Len(s)] \in Whitespace THEN RStrip(SubSeq(s, 1, Len(s) - 1)) ELSE s

Strip(s) == RStrip(LStrip(s))

\* str.replace(old, ""): removes every non-overlapping occurrence of old,
\* scanning left to right.
RECURSIVE Replace(_, _)
Replace(s, old) ==
    IF s = <<>> THEN <<>>
    ELSE IF StartsWith(s, old) THEN Replace(SubSeq(s, Len(old) + 1, Len(s)), old)
    ELSE <<Head(s)>> \o Replace(Tail(s), old)

\* str.split("/")[0]: the part before the first "/".
RECURSIVE SplitFirst(_)
SplitFirst(s) ==
    IF s = <<>> \/ Head(s) = "/" THEN <<>>
    ELSE <<Head(s)>> \o SplitFirst(Tail(s))

\* host.replace("http://", "").replace("https://", "").split("/")[0]
Normalize(s) == SplitFirst(Replace(Replace(s, SchemeHttp), SchemeHttps))

\* ---------------------------------------------------------------- resolver
\* socket.gethostbyname encodes the name with the idna codec before it
\* resolves: a name with an empty label other than a trailing one makes the
\* codec raise UnicodeError ("label empty or too long"), which is a ValueError
\* and not a socket.error.
HasEmptyLabel(h) ==
    /\ h # <<>>
    /\ \/ Head(h) = "."
       \/ \E i \in 1..(Len(h) - 1) : h[i] = "." /\ h[i + 1] = "."

\* What socket.gethostbyname(host) can do: return an address ("ok"), raise
\* socket.error ("socket_error") or raise UnicodeError ("unicode_error"). The
\* empty name resolves to 0.0.0.0.
GetHostByName(h) ==
    IF h = <<>> THEN {"ok"}
    ELSE IF HasEmptyLabel(h) THEN {"unicode_error"}
    ELSE {"ok", "socket_error"}

\* resolve_dns(host): True, False, or the exception it lets through.
ResolveDns(h) ==
    { IF o = "ok" THEN "true" ELSE IF o = "socket_error" THEN "false" ELSE "raise" :
        o \in GetHostByName(h) }

\* ------------------------------------------------------------------- probe
\* check_host(host, port): the (is_working, latency) pairs it can return. A
\* URL without a usable host makes requests raise InvalidURL, a
\* RequestException, which is caught and turned into (False, 0).
CheckHost(h, port) ==
    IF port = Port443 \/ port = Port80 THEN
        IF h = <<>> \/ HasEmptyLabel(h) THEN {<<FALSE, 0>>}
        ELSE {<<FALSE, 0>>} \cup {<<TRUE, l>> : l \in Latencies}
    ELSE
        {<<FALSE, 0>>} \cup {<<ok, l>> : ok \in BOOLEAN, l \in Latencies}

\* --------------------------------------------------------------- reporting
\* The single-host result line: which port and latency it names.
ScanResultMut(h, w443, l443, w80, l80) ==
    IF w443 \/ w80 THEN
        [working |-> TRUE, host |-> h,
         port |-> IF w443 /\ (~w80 \/ l443 <= l80) THEN Port443 ELSE Port80,
         latency |-> IF w443 /\ (~w80 \/ l443 <= l80) THEN l443 ELSE l80]
    ELSE [working |-> FALSE, host |-> h]

ScanResult(h, w443, l443, w80, l80) ==
    IF w443 \/ w80 THEN
        [working |-> TRUE, host |-> h,
         port |-> IF w443 THEN Port443 ELSE Port80,
         latency |-> IF w443 THEN l443 ELSE l80]
    ELSE [working |-> FALSE, host |-> h]

\* f"- {host} (Latency: {latency:.2f} ms)" and f"- {host}"
WorkingLine(h, latency) == [host |-> h, latency |-> latency]
NonWorkingLine(h) == [host |-> h]

\* ------------------------------------------------------------- membership
\* CONFIG['required_channels']: the default of REQUIRED_CHANNELS, split on ",".
RequiredChannels == <<"megahubbots", "Freenethubz", "Freenethubchannel">>

\* The statuses is_member_of_channels accepts.
AcceptedStatuses == {"member", "administrator", "creator"}

\* What context.bot.get_chat_member can do: return a chat member with one of
\* the statuses of the Bot API, raise BadRequest, or raise another
\* TelegramError, which is_member_of_channels does not catch.
GetChatMember ==
    AcceptedStatuses \cup {"restricted", "left", "kicked"} \cup {"BadRequest", "TelegramError"}

\* ----------------------------------------------------------------- /generate
\* context.args of /generate: no word, one word, or two words.
GenerateArgs == {<<>>, <<<<"a">>>>, <<<<"B", "a">>>>, <<<<"a">>, <<"B">>>>}

\* " ".join(words)
RECURSIVE Join(_)
Join(words) ==
    IF words = <<>> THEN <<>>
    ELSE IF Len(words) = 1 THEN words[1]
    ELSE words[1] \o <<" ">> \o Join(Tail(words))

Upper(c) == IF c = "a" THEN "A" ELSE IF c = "b" THEN "B" ELSE c
Lower(c) == IF c = "A" THEN "a" ELSE IF c = "B" THEN "b" ELSE c

\* str.capitalize(): first character upper case, the rest lower case.
Capitalize(s) ==
    [i \in DOMAIN s |-> IF i = 1 THEN Upper(s[i]) ELSE Lower(s[i])]

\* ------------------------------------------------------------------- state
VARIABLES
    handler,            \* "scan", "document" or "generate": the handler serving the update
    checked,            \* channels is_member_of_channels has looked up, in order
    member,             \* its result: "pending", "true", "false" or "raise"
    refused_by,         \* the lookup outcome that made it return False, or "none"
    prompted,           \* send_force_join_message has sent the join prompt
    country,            \* the local variable country of /generate
    pc,                 \* position in the handler
    args,               \* context.args of /scan
    file_lines,         \* lines of the uploaded file
    line_no,            \* number of lines read so far
    host,               \* the local variable host
    retry,              \* frame of check_host_with_retry: port, attempt, ret, cont
    r443,               \* (is_working_443, latency_443)
    r80,                \* (is_working_80, latency_80)
    working_hosts,      \* list working_hosts
    non_working_hosts,  \* list non_working_hosts
    result,             \* the reply of /scan
    scans,              \* records written by add_scan
    hlog,               \* calls made for the current host, in order
    classified,         \* how each read host was classified, in order
    pauses              \* number of inter-host time.sleep(1) calls

gate_vars == <<checked, member, refused_by, prompted>>

vars == <<gate_vars, country, handler, pc, args, file_lines, line_no, host, retry, r443, r80,
          working_hosts, non_working_hosts, result, scans, hlog, classified, pauses>>

NoRetry == [port |-> 0, attempt |-> 0, ret |-> <<FALSE, 0>>, cont |-> "none"]
NoResult == [working |-> FALSE, host |-> <<>>]

Init ==
    /\ \/ /\ handler = "scan"
          /\ args \in {<<>>} \cup {<<a>> : a \in RawArgs}
          /\ file_lines = <<>>
       \/ /\ handler = "document"
          /\ args = <<>>
          /\ file_lines \in SeqsUpTo(FileLines, MaxLines)
       \/ /\ handler = "generate"
          /\ args \in GenerateArgs
          /\ file_lines = <<>>
    /\ pc = "gate"
    /\ checked = <<>>
    /\ member = "pending"
    /\ refused_by = "none"
    /\ prompted = FALSE
    /\ country = <<>>
    /\ line_no = 0
    /\ host = <<>>
    /\ retry = NoRetry
    /\ r443 = <<FALSE, 0>>
    /\ r80 = <<FALSE, 0>>
    /\ working_hosts = <<>>
    /\ non_working_hosts = <<>>
    /\ result = NoResult
    /\ scans = <<>>
    /\ hlog = <<>>
    /\ classified = <<>>
    /\ pauses = 0

\* ---------------------------------------------------- is_member_of_channels
\* Where a handler goes on once is_member_of_channels has returned True.
Body(h) ==
    IF h = "scan" THEN "scan_args" ELSE IF h = "document" THEN "doc_read" ELSE "gen_args"

\* One iteration of the loop over CONFIG['required_channels']: the lookup of
\* the next channel; return False on a status that is not accepted or on
\* BadRequest; any other exception leaves the handler.
CheckChannel ==
    /\ pc = "gate"
    /\ Len(checked) < Len(RequiredChannels)
    /\ checked' = Append(checked, RequiredChannels[Len(checked) + 1])
    /\ \E o \in GetChatMember :
        IF o \in AcceptedStatuses
        THEN /\ pc' = "gate"
             /\ UNCHANGED <<member, refused_by>>
        ELSE IF o = "TelegramError"
        THEN /\ pc' = "raised"
             /\ member' = "raise"
             /\ refused_by' = refused_by
        ELSE /\ pc' = "force_join"
             /\ member' = "false"
             /\ refused_by' = o
    /\ UNCHANGED <<prompted, country, handler, args, file_lines, line_no, host, retry, r443,
                   r80, working_hosts, non_working_hosts, result, scans, hlog, classified,
                   pauses>>

\* return True after the last channel; the handler goes on with its body.
GatePass ==
    /\ pc = "gate"
    /\ Len(checked) = Len(RequiredChannels)
    /\ member' = "true"
    /\ pc' = Body(handler)
    /\ UNCHANGED <<checked, refused_by, prompted, country, handler, args, file_lines,
                   line_no, host, retry, r443, r80, working_hosts, non_working_hosts,
                   result, scans, hlog, classified, pauses>>

\* A mutant of the refusal that sends the prompt and goes on with the body.
SendForceJoinNoReturn ==
    /\ pc = "force_join"
    /\ prompted' = TRUE
    /\ pc' = Body(handler)
    /\ UNCHANGED <<checked, member, refused_by, country, handler, args, file_lines,
                   line_no, host, retry, r443, r80, working_hosts, non_working_hosts,
                   result, scans, hlog, classified, pauses>>

\* await send_force_join_message(update); return
SendForceJoin ==
    /\ pc = "force_join"
    /\ prompted' = TRUE
    /\ pc' = "done"
    /\ UNCHANGED <<checked, member, refused_by, country, handler, args, file_lines,
                   line_no, host, retry, r443, r80, working_hosts, non_working_hosts,
                   result, scans, hlog, classified, pauses>>

\* --------------------------------------------------- handle_generate_command
\* user_input = " ".join(context.args).strip(); reply and return when it is
\* empty; else country = user_input.capitalize().
GenArgs ==
    /\ pc = "gen_args"
    /\ LET user_input == Strip(Join(args)) IN
        IF user_input = <<>>
        THEN /\ country' = country
             /\ pc' = "done"
        ELSE /\ country' = Capitalize(user_input)
             /\ pc' = "gen_lookup"
    /\ UNCHANGED <<gate_vars, handler, args, file_lines, line_no, host, retry, r443, r80,
                   working_hosts, non_working_hosts, result, scans, hlog, classified, pauses>>

\* hosts = get_sni_hosts(country); add_scan(user.id, "country_query", ...) when
\* the country has hosts; reply.
GenLookup ==
    /\ pc = "gen_lookup"
    /\ \E found \in BOOLEAN :
        scans' = IF found
                 THEN Append(scans, [type |-> "country_query", target |-> country])
                 ELSE scans
    /\ pc' = "done"
    /\ UNCHANGED <<gate_vars, country, handler, args, file_lines, line_no, host, retry,
                   r443, r80, working_hosts, non_working_hosts, result, hlog, classified,
                   pauses>>

\* ----------------------------------------------------- check_host_with_retry
\* Entry: for attempt in range(retries), starting at attempt 0.
CallRetry(port, cont) ==
    /\ retry' = [port |-> port, attempt |-> 0, ret |-> <<FALSE, 0>>, cont |-> cont]
    /\ hlog' = Append(hlog, [op |-> "call", port |-> port])
    /\ pc' = "retry_probe"

\* One iteration up to the test of is_working: a mutant that keeps looping
\* after a reachable attempt.
RetryProbeMut ==
    /\ pc = "retry_probe"
    /\ \E res \in CheckHost(host, retry.port) :
        /\ hlog' = Append(hlog, [op |-> "check_host", port |-> retry.port,
                                  ok |-> res[1], latency |-> res[2]])
        /\ retry' = [retry EXCEPT !.ret = res]
        /\ pc' = "retry_sleep"
    /\ UNCHANGED <<gate_vars, country, handler, args, file_lines, line_no, host, r443, r80, working_hosts,
                   non_working_hosts, result, scans, classified, pauses>>

\* is_working, latency = check_host(host, port); if is_working: return True, latency
RetryProbe ==
    /\ pc = "retry_probe"
    /\ \E res \in CheckHost(host, retry.port) :
        /\ hlog' = Append(hlog, [op |-> "check_host", port |-> retry.port,
                                  ok |-> res[1], latency |-> res[2]])
        /\ IF res[1]
           THEN /\ retry' = [retry EXCEPT !.ret = <<TRUE, res[2]>>]
                /\ pc' = "retry_ret"
           ELSE /\ retry' = retry
                /\ pc' = "retry_sleep"
    /\ UNCHANGED <<gate_vars, country, handler, args, file_lines, line_no, host, r443, r80, working_hosts,
                   non_working_hosts, result, scans, classified, pauses>>

\* time.sleep(1), then the next iteration, or return False, 0 after the last.
RetrySleep ==
    /\ pc = "retry_sleep"
    /\ hlog' = Append(hlog, [op |-> "sleep", port |-> retry.port])
    /\ IF retry.attempt + 1 < Retries
       THEN /\ retry' = [retry EXCEPT !.attempt = @ + 1]
            /\ pc' = "retry_probe"
       ELSE /\ retry' = [retry EXCEPT !.attempt = @ + 1, !.ret = <<FALSE, 0>>]
            /\ pc' = "retry_ret"
    /\ UNCHANGED <<gate_vars, country, handler, args, file_lines, line_no, host, r443, r80, working_hosts,
                   non_working_hosts, result, scans, classified, pauses>>

\* The caller's assignment of the returned pair.
RetryReturn ==
    /\ pc = "retry_ret"
    /\ hlog' = Append(hlog, [op |-> "ret", port |-> retry.port,
                              ok |-> retry.ret[1], latency |-> retry.ret[2]])
    /\ IF retry.port = Port443
       THEN r443' = retry.ret /\ r80' = r80
       ELSE r80' = retry.ret /\ r443' = r443
    /\ pc' = retry.cont
    /\ UNCHANGED <<gate_vars, country, handler, args, file_lines, line_no, host, retry, working_hosts,
                   non_working_hosts, result, scans, classified, pauses>>

\* ------------------------------------------------------- scan_specific_host
\* if not context.args: reply and return; else strip and normalize args[0].
ScanArgs ==
    /\ pc = "scan_args"
    /\ IF args = <<>>
       THEN /\ host' = host
            /\ pc' = "done"
       ELSE /\ host' = Normalize(Strip(args[1]))
            /\ pc' = "scan_443"
    /\ UNCHANGED <<gate_vars, country, handler, args, file_lines, line_no, retry, r443, r80, working_hosts,
                   non_working_hosts, result, scans, hlog, classified, pauses>>

\* is_working_443, latency_443 = check_host_with_retry(host, 443)
ScanCall443 ==
    /\ pc = "scan_443"
    /\ CallRetry(Port443, "scan_80")
    /\ UNCHANGED <<gate_vars, country, handler, args, file_lines, line_no, host, r443, r80, working_hosts,
                   non_working_hosts, result, scans, classified, pauses>>

\* is_working_80, latency_80 = check_host_with_retry(host, 80)
ScanCall80 ==
    /\ pc = "scan_80"
    /\ CallRetry(Port80, "scan_report")
    /\ UNCHANGED <<gate_vars, country, handler, args, file_lines, line_no, host, r443, r80, working_hosts,
                   non_working_hosts, result, scans, classified, pauses>>

\* Builds the result line, add_scan(user.id, "single_host", host, result), reply.
ScanReport ==
    /\ pc = "scan_report"
    /\ result' = ScanResult(host, r443[1], r443[2], r80[1], r80[2])
    /\ scans' = Append(scans, [type |-> "single_host", target |-> host])
    /\ pc' = "done"
    /\ UNCHANGED <<gate_vars, country, handler, args, file_lines, line_no, host, retry, r443, r80,
                   working_hosts, non_working_hosts, hlog, classified, pauses>>

\* ---------------------------------------------------------- handle_document
\* The entry of the two lists for a probed host.
DocEntry(h, w443, l443, w80, l80) ==
    IF w443 \/ w80
    THEN WorkingLine(h, IF w443 THEN l443 ELSE l80)
    ELSE NonWorkingLine(h)

\* for line in f: host = line.strip(); if not host: continue; normalize.
DocRead ==
    /\ pc = "doc_read"
    /\ line_no < Len(file_lines)
    /\ line_no' = line_no + 1
    /\ LET stripped == Strip(file_lines[line_no + 1]) IN
        IF stripped = <<>>
        THEN /\ host' = stripped
             /\ pc' = "doc_read"
        ELSE /\ host' = Normalize(stripped)
             /\ pc' = "doc_dns"
    /\ hlog' = <<>>
    /\ UNCHANGED <<gate_vars, country, handler, args, file_lines, retry, r443, r80, working_hosts,
                   non_working_hosts, result, scans, classified, pauses>>

\* A mutant of the pre-check whose failure branch falls through to the probes.
DocResolveDnsFallThrough ==
    /\ pc = "doc_dns"
    /\ \E o \in ResolveDns(host) :
        /\ hlog' = Append(hlog, [op |-> "resolve_dns", res |-> o])
        /\ IF o = "false"
           THEN /\ non_working_hosts' = Append(non_working_hosts, NonWorkingLine(host))
                /\ classified' = Append(classified, [line |-> line_no, how |-> "dns"])
                /\ pc' = "doc_443"
           ELSE /\ UNCHANGED <<non_working_hosts, classified>>
                /\ pc' = IF o = "true" THEN "doc_443" ELSE "raised"
    /\ UNCHANGED <<gate_vars, country, handler, args, file_lines, line_no, host, retry, r443, r80,
                   working_hosts, result, scans, pauses>>

\* A mutant of the pre-check whose failure branch reaches the inter-host pause.
DocResolveDnsThenPause ==
    /\ pc = "doc_dns"
    /\ \E o \in ResolveDns(host) :
        /\ hlog' = Append(hlog, [op |-> "resolve_dns", res |-> o])
        /\ IF o = "false"
           THEN /\ non_working_hosts' = Append(non_working_hosts, NonWorkingLine(host))
                /\ classified' = Append(classified, [line |-> line_no, how |-> "dns"])
                /\ pc' = "doc_pause"
           ELSE /\ UNCHANGED <<non_working_hosts, classified>>
                /\ pc' = IF o = "true" THEN "doc_443" ELSE "raised"
    /\ UNCHANGED <<gate_vars, country, handler, args, file_lines, line_no, host, retry, r443, r80,
                   working_hosts, result, scans, pauses>>

\* if not resolve_dns(host): non_working_hosts.append(f"- {host}"); continue
\* An exception of resolve_dns propagates out of the handler.
DocResolveDns ==
    /\ pc = "doc_dns"
    /\ \E o \in ResolveDns(host) :
        /\ hlog' = Append(hlog, [op |-> "resolve_dns", res |-> o])
        /\ IF o = "false"
           THEN /\ non_working_hosts' = Append(non_working_hosts, NonWorkingLine(host))
                /\ classified' = Append(classified, [line |-> line_no, how |-> "dns"])
                /\ pc' = "doc_read"
           ELSE /\ UNCHANGED <<non_working_hosts, classified>>
                /\ pc' = IF o = "true" THEN "doc_443" ELSE "raised"
    /\ UNCHANGED <<gate_vars, country, handler, args, file_lines, line_no, host, retry, r443, r80,
                   working_hosts, result, scans, pauses>>

\* is_working_443, latency_443 = check_host_with_retry(host, 443)
DocCall443 ==
    /\ pc = "doc_443"
    /\ CallRetry(Port443, "doc_80")
    /\ UNCHANGED <<gate_vars, country, handler, args, file_lines, line_no, host, r443, r80, working_hosts,
                   non_working_hosts, result, scans, classified, pauses>>

\* A mutant that skips the port-80 probe once port 443 was reachable.
DocCall80ShortCircuit ==
    /\ pc = "doc_80"
    /\ IF r443[1]
       THEN /\ pc' = "doc_classify"
            /\ UNCHANGED <<retry, hlog>>
       ELSE CallRetry(Port80, "doc_classify")
    /\ UNCHANGED <<gate_vars, country, handler, args, file_lines, line_no, host, r443, r80, working_hosts,
                   non_working_hosts, result, scans, classified, pauses>>

\* is_working_80, latency_80 = check_host_with_retry(host, 80)
DocCall80 ==
    /\ pc = "doc_80"
    /\ CallRetry(Port80, "doc_classify")
    /\ UNCHANGED <<gate_vars, country, handler, args, file_lines, line_no, host, r443, r80, working_hosts,
                   non_working_hosts, result, scans, classified, pauses>>

\* Appends the host to working_hosts or to non_working_hosts.
DocClassify ==
    /\ pc = "doc_classify"
    /\ IF r443[1] \/ r80[1]
       THEN /\ working_hosts' =
                  Append(working_hosts, DocEntry(host, r443[1], r443[2], r80[1], r80[2]))
            /\ non_working_hosts' = non_working_hosts
            /\ classified' = Append(classified, [line |-> line_no, how |-> "working"])
       ELSE /\ non_working_hosts' =
                  Append(non_working_hosts, DocEntry(host, r443[1], r443[2], r80[1], r80[2]))
            /\ working_hosts' = working_hosts
            /\ classified' = Append(classified, [line |-> line_no, how |-> "not_working"])
    /\ pc' = "doc_pause"
    /\ UNCHANGED <<gate_vars, country, handler, args, file_lines, line_no, host, retry, r443, r80, result,
                   scans, hlog, pauses>>

\* time.sleep(1) at the end of the loop body.
DocPause ==
    /\ pc = "doc_pause"
    /\ pauses' = pauses + 1
    /\ hlog' = Append(hlog, [op |-> "pause"])
    /\ pc' = "doc_read"
    /\ UNCHANGED <<gate_vars, country, handler, args, file_lines, line_no, host, retry, r443, r80,
                   working_hosts, non_working_hosts, result, scans, classified>>

\* After the loop: add_scan(user.id, "file_upload", ...), reply, os.remove.
DocFinish ==
    /\ pc = "doc_read"
    /\ line_no = Len(file_lines)
    /\ scans' = Append(scans, [type |-> "file_upload",
                                target |-> [working_hosts |-> working_hosts,
                                            non_working_hosts |-> non_working_hosts]])
    /\ pc' = "done"
    /\ UNCHANGED <<gate_vars, country, handler, args, file_lines, line_no, host, retry, r443, r80,
                   working_hosts, non_working_hosts, result, hlog, classified, pauses>>

Next ==
    \/ CheckChannel
    \/ GatePass
    \/ SendForceJoin
    \/ GenArgs
    \/ GenLookup
    \/ ScanArgs
    \/ ScanCall443
    \/ ScanCall80
    \/ ScanReport
    \/ DocRead
    \/ DocResolveDns
    \/ DocCall443
    \/ DocCall80
    \/ DocClassify
    \/ DocPause
    \/ DocFinish
    \/ RetryProbe
    \/ RetrySleep
    \/ RetryReturn

Spec == Init /\ [][Next]_vars

\* ------------------------------------------------------ reading the call log
ProbePorts == {Port443, Port80}
PortOps == {"call", "check_host", "sleep", "ret"}

\* Positions in hlog of the events of one kind for one port.
At(op, port) == {i \in DOMAIN hlog : hlog[i].op = op /\ hlog[i].port = port}
\* Positions in hlog of anything done on behalf of a port.
ForPort(port) == {i \in DOMAIN hlog : hlog[i].op \in PortOps /\ hlog[i].port = port}
\* Positions in hlog of the DNS pre-checks with a given outcome.
Dns(res) == {i \in DOMAIN hlog : hlog[i].op = "resolve_dns" /\ hlog[i].res = res}
\* Positions in hlog where a probe was invoked.
Probing == {i \in DOMAIN hlog : hlog[i].op \in {"call", "check_host"}}

\* The raw input the current host was taken from.
RawInput == IF handler = "scan" THEN args[1] ELSE file_lines[line_no]
\* Numbers of the lines that are not empty once stripped.
NonEmptyLineNos == {n \in DOMAIN file_lines : Strip(file_lines[n]) # <<>>}
\* is_member_of_channels has returned True.
Admitted == member = "true"
\* The body of the handler has ended, by returning or by an exception.
Ended == Admitted /\ pc \in {"done", "raised"}

\* ------------------------------------------------------------------ claims

\* C1: when every attempt of check_host_with_retry(host, port, retries=2)
\* fails, it has made exactly 2 probe calls and exactly one sleep when it
\* returns (False, 0).
C1_AllFailTwoCallsOneSleep ==
    (pc = "retry_ret" /\ ~retry.ret[1]) =>
        /\ Cardinality(At("check_host", retry.port)) = Retries
        /\ Cardinality(At("sleep", retry.port)) = Retries - 1
        /\ retry.ret = <<FALSE, 0>>

\* C2: check_host_with_retry returns on the first reachable attempt: a
\* reachable attempt k is the last thing done for that port apart from the
\* return, k is at most retries, k - 1 sleeps and k - 1 failed attempts precede
\* it, and the returned latency is that attempt's latency.
C2_ReturnsOnFirstReachable ==
    \A port \in ProbePorts : \A i \in At("check_host", port) :
        hlog[i].ok =>
            LET k == Cardinality({j \in At("check_host", port) : j <= i}) IN
            /\ \A j \in ForPort(port) : j > i => /\ hlog[j].op = "ret"
                                                 /\ j = i + 1
                                                 /\ hlog[j].ok
                                                 /\ hlog[j].latency = hlog[i].latency
            /\ k \in 1..Retries
            /\ Cardinality(At("check_host", port)) = k
            /\ Cardinality(At("sleep", port)) = k - 1
            /\ \A j \in At("check_host", port) : j < i => ~hlog[j].ok
            /\ (i = Len(hlog) /\ pc = "retry_ret") => retry.ret = <<TRUE, hlog[i].latency>>
            /\ hlog[i].latency \in Latencies

\* The second attempt was the first reachable one and its result was returned.
C2_Witness ==
    \E i \in At("check_host", Port443) :
        /\ hlog[i].ok
        /\ \E j \in At("check_host", Port443) : j < i /\ ~hlog[j].ok
        /\ At("ret", Port443) # {}
        /\ r443 = <<TRUE, hlog[i].latency>>

\* C3: in handle_document, once resolve_dns has returned False for the host of
\* a line, the host is the last entry of the non-working list and no probe is
\* invoked for it.
C3_DnsFailureSkipsProbes ==
    (handler = "document" /\ Dns("false") # {}) =>
        /\ Probing = {}
        /\ non_working_hosts # <<>>
        /\ non_working_hosts[Len(non_working_hosts)] = NonWorkingLine(host)
        /\ classified[Len(classified)] = [line |-> line_no, how |-> "dns"]
        /\ host = Normalize(Strip(file_lines[line_no]))
        /\ pc \in {"doc_read", "done"}

\* A host failed the pre-check and the handler went on to the end of the file.
C3_Witness ==
    /\ handler = "document"
    /\ Dns("false") # {}
    /\ pc = "done"
    /\ non_working_hosts # <<>>

\* C4: the reply of /scan reports working = reachable_443 or reachable_80,
\* port 443 with its latency whenever 443 was reachable, port 80 with its
\* latency when only 80 was, and no port when neither was; the two pairs are
\* the values the two retry probes returned. The batch entry follows the same
\* rule.
C4_Prefers443 ==
    /\ (handler = "scan" /\ Admitted /\ pc = "done" /\ args # <<>>) =>
        /\ \E i \in At("ret", Port443) : r443 = <<hlog[i].ok, hlog[i].latency>>
        /\ \E i \in At("ret", Port80) : r80 = <<hlog[i].ok, hlog[i].latency>>
        /\ result.working = (r443[1] \/ r80[1])
        /\ result.host = host
        /\ r443[1] => result.port = Port443 /\ result.latency = r443[2]
        /\ (~r443[1] /\ r80[1]) => result.port = Port80 /\ result.latency = r80[2]
        /\ (~r443[1] /\ ~r80[1]) => DOMAIN result = {"working", "host"}
    /\ (handler = "document" /\ pc = "doc_pause") =>
        /\ (classified[Len(classified)].how = "working") = (r443[1] \/ r80[1])
        /\ r443[1] =>
             working_hosts[Len(working_hosts)] = WorkingLine(host, r443[2])
        /\ (~r443[1] /\ r80[1]) =>
             working_hosts[Len(working_hosts)] = WorkingLine(host, r80[2])
        /\ (~r443[1] /\ ~r80[1]) =>
             non_working_hosts[Len(non_working_hosts)] = NonWorkingLine(host)

\* Both ports were reachable, port 80 faster, and the reply names port 443.
C4_Witness ==
    /\ handler = "scan"
    /\ pc = "done"
    /\ r443[1] /\ r80[1] /\ r80[2] < r443[2]
    /\ result.working /\ result.port = Port443 /\ result.latency = r443[2]

\* The lists are an in-order partition of the non-empty lines read so far.
PartitionOf(lines) ==
    /\ Len(classified) = Cardinality(lines)
    /\ {classified[k].line : k \in DOMAIN classified} = lines
    /\ \A k \in DOMAIN classified : \A m \in DOMAIN classified :
          k < m => classified[k].line < classified[m].line
    /\ Len(working_hosts) =
          Cardinality({k \in DOMAIN classified : classified[k].how = "working"})
    /\ Len(non_working_hosts) =
          Cardinality({k \in DOMAIN classified : classified[k].how # "working"})
    /\ \A k \in DOMAIN classified :
          LET h == Normalize(Strip(file_lines[classified[k].line]))
              w == Cardinality({m \in 1..k : classified[m].how = "working"})
              n == Cardinality({m \in 1..k : classified[m].how # "working"})
          IN  IF classified[k].how = "working"
              THEN working_hosts[w].host = h
              ELSE non_working_hosts[n] = NonWorkingLine(h)

\* C5: when handle_document has ended, every non-empty line of the input has
\* exactly one entry in exactly one of the two lists, duplicates included, and
\* each list keeps the order of the input.
C5_PartitionInOrder ==
    (handler = "document" /\ Ended) => PartitionOf(NonEmptyLineNos)

\* The same, for the runs that reach the end of the file.
PartitionWhenCompleted ==
    (handler = "document" /\ Admitted /\ pc = "done") => PartitionOf(NonEmptyLineNos)

\* C6 as claimed: over any input the number of inter-host pauses equals the
\* number of non-empty lines evaluated, DNS-rejected hosts included.
C6_PauseAfterEveryHost ==
    (handler = "document" /\ Admitted /\ pc = "done") => pauses = Cardinality(NonEmptyLineNos)

\* C6 as amended: the number of inter-host pauses equals the number of hosts
\* that were probed (classified working or non-working after probing); a host
\* rejected by the DNS pre-check is followed by no pause.
C6_PauseAfterEveryProbedHost ==
    handler = "document" =>
        LET probed == Cardinality({k \in DOMAIN classified : classified[k].how # "dns"})
        IN  /\ pauses = IF pc = "doc_pause" THEN probed - 1 ELSE probed
            /\ (pc = "doc_read" /\ Dns("false") # {}) => hlog[Len(hlog)].op # "pause"
            /\ (pc = "doc_read" /\ At("ret", Port80) # {}) => hlog[Len(hlog)].op = "pause"

\* A file with a DNS-rejected host and a host found not working by probing.
C6_Witness ==
    /\ handler = "document"
    /\ pc = "done"
    /\ \E k \in DOMAIN classified : classified[k].how = "dns"
    /\ \E k \in DOMAIN classified : classified[k].how = "not_working"
    /\ pauses = 1

\* C7: resolve_dns never raises, and handle_document always ends having read
\* its whole input.
C7_NoFailureIsFatal ==
    /\ Dns("raise") = {}
    /\ (handler = "document" /\ Ended) => (pc = "done" /\ line_no = Len(file_lines))

\* C8: for every host that is evaluated (in the batch, once resolve_dns has
\* returned True) the retry probe runs against port 443 and then against port
\* 80: nothing is done for port 80 before the port-443 probe has returned, the
\* port-80 probe is invoked right after it whatever it returned, and both have
\* returned when the host is classified.
C8_Probes443Then80 ==
    /\ \A i \in ForPort(Port80) : \E j \in At("ret", Port443) : j < i
    /\ \A j \in At("ret", Port443) :
          j < Len(hlog) => hlog[j + 1] = [op |-> "call", port |-> Port80]
    /\ \A i \in At("call", Port443) :
          /\ \A j \in 1..(i - 1) : hlog[j].op = "resolve_dns" /\ hlog[j].res = "true"
          /\ handler = "document" => i = 2
          /\ handler = "scan" => i = 1
    /\ (\/ pc \in {"scan_report", "doc_classify", "doc_pause"}
        \/ (handler = "scan" /\ Admitted /\ pc = "done" /\ args # <<>>)
        \/ (handler = "document" /\ pc = "doc_read" /\ Dns("true") # {})) =>
          /\ Cardinality(At("call", Port443)) = 1
          /\ Cardinality(At("ret", Port443)) = 1
          /\ Cardinality(At("call", Port80)) = 1
          /\ Cardinality(At("ret", Port80)) = 1

\* In the batch, port 443 was reachable and the port-80 probe was made all the same.
C8_Witness ==
    /\ handler = "document"
    /\ r443[1]
    /\ \E j \in At("ret", Port443) : hlog[j].ok
    /\ At("check_host", Port80) # {}
    /\ pc = "doc_classify"

\* C9: a hostname that is empty after normalization is never probed.
C9_EmptyHostNeverProbed ==
    host = <<>> => Probing = {}

\* The hostname of the claim: one leading scheme prefix removed, then cut at
\* the first "/".
LeadingSchemeStripped(s) ==
    SplitFirst(IF StartsWith(s, SchemeHttp) THEN SubSeq(s, Len(SchemeHttp) + 1, Len(s))
               ELSE IF StartsWith(s, SchemeHttps) THEN SubSeq(s, Len(SchemeHttps) + 1, Len(s))
               ELSE s)

\* C10: the hostname handed to the probes is the (stripped) raw input with a
\* leading http:// or https:// removed and everything from the first "/" on
\* removed, nothing else altered.
C10_OnlyLeadingSchemeRemoved ==
    Probing # {} => host = LeadingSchemeStripped(Strip(RawInput))

\* Positions of a handler past the membership gate.
BodyPcs ==
    {"scan_args", "scan_443", "scan_80", "scan_report", "doc_read", "doc_dns", "doc_443",
     "doc_80", "doc_classify", "doc_pause", "gen_args", "gen_lookup", "retry_probe",
     "retry_sleep", "retry_ret"}

\* C11: in the /scan, file-upload and /generate handlers the channels are
\* looked up in configured order; once a channel reports a status other than
\* member, administrator or creator, or its lookup raises BadRequest, the
\* handler only sends the join prompt and returns: no DNS check, no probe, no
\* list entry, no reply and no scan record. A DNS check, a probe or a scan
\* record is reached only after every required channel was looked up and
\* accepted.
C11_GateBeforeProbe ==
    /\ Len(checked) <= Len(RequiredChannels)
    /\ checked = SubSeq(RequiredChannels, 1, Len(checked))
    /\ (refused_by # "none") = (member = "false")
    /\ refused_by # "none" =>
          /\ refused_by \notin AcceptedStatuses
          /\ pc \in {"force_join", "done"}
          /\ (pc = "done") = prompted
          /\ hlog = <<>>
          /\ scans = <<>>
          /\ working_hosts = <<>> /\ non_working_hosts = <<>> /\ classified = <<>>
          /\ result = NoResult
    /\ (hlog # <<>> \/ scans # <<>> \/ pc \in BodyPcs) =>
          /\ member = "true"
          /\ checked = RequiredChannels
          /\ ~prompted
    /\ prompted => member = "false"

\* The second channel's lookup raised BadRequest and the handler returned
\* after the join prompt, the third channel never looked up.
C11_Witness ==
    /\ refused_by = "BadRequest"
    /\ checked = SubSeq(RequiredChannels, 1, 2)
    /\ prompted
    /\ pc = "done"
    /\ scans = <<>> /\ hlog = <<>>

====
